---------------------------- MODULE Spec2Model ----------------------------
(***************************************************************************)
(* Model of make_standalone_toolchains.py: the SDK normaliser expand_sdk,   *)
(* the generated clang wrapper (CLANG_WRAPPER) and the orchestrator         *)
(* create_apple_toolchain.                                                  *)
(***************************************************************************)
EXTENDS Integers, Sequences, FiniteSets, TLC

VARIABLES
    \* ---- SDK tree under <install>/sdk (expand_sdk) ----
    fs,          \* set of nodes [path, kind, orig]; path is relative to the sdk root
    fs0,         \* the tree expand_sdk was called on
    sdk_pc,      \* "start" | "returned" | "raised"
    sdk_err,     \* which raise ended expand_sdk ("none" when it returned)
    \* ---- one run of the generated wrapper (CLANG_WRAPPER) ----
    w_in,        \* what the run is given: template parameters, argv, environment, own path
    w_pc,        \* "start" | "exec" (image replaced by the compiler) | "exit" | "killed"
    w_args,      \* the vector handed to execvp
    w_stderr,    \* diagnostics written to standard error
    w_status,    \* exit status of the wrapper process when it exits itself
    w_how,       \* how the run ended
    \* ---- one run of create_apple_toolchain ----
    req,         \* the call's arguments and what they name: force, min_version, input_sdk
    pc,          \* the step to run next, or "done" / "failed" / "idle"
    install,     \* install_dir: [kind, gen, entries]
    install0,    \* install_dir when the run began
    cwd,         \* the process's working directory (a path)
    cwd0,        \* the working directory when the run began
    cwd_gone,    \* the working directory's inode was removed (getcwd raises)
    saved,       \* curr_dir of each open at() scope, outermost first
    exits,       \* each closed at() scope: [entered, restored]
    environ,     \* os.environ.get('INSTALLPREFIX'): "unset" or its value
    min_version, \* the minimum version resolved so far ("none" if absent)
    last_run,    \* what the last run() call gave
    log          \* the steps begun so far, each with whether it failed

sdkVars == <<fs, fs0, sdk_pc, sdk_err>>
wrapVars == <<w_in, w_pc, w_args, w_stderr, w_status, w_how>>
orchVars == <<req, pc, install, install0, cwd, cwd0, cwd_gone, saved, exits, environ,
              min_version, last_run, log>>
vars == <<sdkVars, wrapVars, orchVars>>

\* ------------------------------------------------------------------------
\* Filesystem helpers (os.listdir, os.path.isdir, os.rename, shutil.move)
\* ------------------------------------------------------------------------

SETTINGS == "SDKSettings.plist"

\* Entry names used to build SDK trees.
Names == {SETTINGS, "A", "B"}

Last(s) == s[Len(s)]

IsPrefix(p, q) == Len(p) <= Len(q) /\ SubSeq(q, 1, Len(p)) = p

Exists(t, p) == \E n \in t : n.path = p

IsDir(t, p) == p = <<>> \/ \E n \in t : n.path = p /\ n.kind = "dir"

ListDir(t, p) == {Last(n.path) : n \in {m \in t : Len(m.path) = Len(p) + 1 /\ IsPrefix(p, m.path)}}

\* os.rename(src, dst): dst (absent, or a file being replaced) becomes src's subtree.
Rename(t, src, dst) ==
    {n \in t : ~IsPrefix(src, n.path) /\ n.path # dst}
    \cup {[path |-> dst \o SubSeq(n.path, Len(src) + 1, Len(n.path)),
           kind |-> n.kind, orig |-> n.orig] : n \in {m \in t : IsPrefix(src, m.path)}}

\* shutil.move(src, dst) as called on line 182: into dst when dst is a directory
\* (refusing an existing dst/basename), else os.rename, whose failure for a
\* directory over a file ends in copytree raising FileExistsError.
Move(t, src, dst) ==
    IF IsDir(t, dst)
    THEN LET real_dst == Append(dst, Last(src)) IN
         IF Exists(t, real_dst)
         THEN [ok |-> FALSE, fs |-> t]
         ELSE [ok |-> TRUE, fs |-> Rename(t, src, real_dst)]
    ELSE IF Exists(t, dst) /\ IsDir(t, src)
         THEN [ok |-> FALSE, fs |-> t]
         ELSE [ok |-> TRUE, fs |-> Rename(t, src, dst)]

\* ------------------------------------------------------------------------
\* expand_sdk
\* ------------------------------------------------------------------------

\* sdk_items after the filter of line 175
sdk_items(t) == {x \in ListDir(t, <<>>) : IsDir(t, <<x>>) /\ SETTINGS \in ListDir(t, <<x>>)}

\* the loop of lines 181-182 over os.listdir(sub_sdk) in the order `items`
RECURSIVE MoveItems(_, _, _)
MoveItems(t, sub_sdk, items) ==
    IF items = <<>>
    THEN [ok |-> TRUE, fs |-> t]
    ELSE LET r == Move(t, <<sub_sdk, Head(items)>>, <<Head(items)>>) IN
         IF r.ok THEN MoveItems(r.fs, sub_sdk, Tail(items))
         ELSE [ok |-> FALSE, fs |-> r.fs]

\* os.rmdir(sub_sdk), line 183
Rmdir(t, p) ==
    IF ListDir(t, p) # {}
    THEN [ok |-> FALSE, fs |-> t]
    ELSE [ok |-> TRUE, fs |-> {n \in t : n.path # p}]

\* expand_sdk without the check of line 178: the first candidate is taken
expand_sdk_first_candidate(t, items) ==
    IF SETTINGS \in ListDir(t, <<>>)
    THEN [err |-> "none", fs |-> t]
    ELSE IF Cardinality(sdk_items(t)) = 0
    THEN [err |-> "not_found", fs |-> t]
    ELSE LET sub_sdk == CHOOSE x \in sdk_items(t) : TRUE
             moved == MoveItems(t, sub_sdk, items)
             removed == Rmdir(moved.fs, <<sub_sdk>>)
         IN  IF ~moved.ok THEN [err |-> "move", fs |-> moved.fs]
             ELSE IF ~removed.ok THEN [err |-> "rmdir", fs |-> removed.fs]
             ELSE [err |-> "none", fs |-> removed.fs]

\* expand_sdk(sdk); `items` is the order os.listdir(sub_sdk) returned
expand_sdk(t, items) ==
    IF SETTINGS \in ListDir(t, <<>>)
    THEN [err |-> "none", fs |-> t]
    ELSE IF Cardinality(sdk_items(t)) = 0
    THEN [err |-> "not_found", fs |-> t]
    ELSE IF Cardinality(sdk_items(t)) > 1
    THEN [err |-> "multiple", fs |-> t]
    ELSE LET sub_sdk == CHOOSE x \in sdk_items(t) : TRUE
             moved == MoveItems(t, sub_sdk, items)
             removed == Rmdir(moved.fs, <<sub_sdk>>)
         IN  IF ~moved.ok THEN [err |-> "move", fs |-> moved.fs]
             ELSE IF ~removed.ok THEN [err |-> "rmdir", fs |-> removed.fs]
             ELSE [err |-> "none", fs |-> removed.fs]

\* The orders os.listdir may return the entries of a set in.
Orders(S) == {s \in [1..Cardinality(S) -> S] : \A a \in S : \E i \in 1..Cardinality(S) : s[i] = a}

\* The listing the loop of line 181 iterates over, when there is a candidate.
SubListing(t) ==
    IF sdk_items(t) # {}
    THEN ListDir(t, <<CHOOSE x \in sdk_items(t) : TRUE>>)
    ELSE {}

\* ------------------------------------------------------------------------
\* SDK trees fed to expand_sdk
\* ------------------------------------------------------------------------

Node(p, k) == [path |-> p, kind |-> k, orig |-> p]

\* an entry `name` of the root: absent, a file, or a directory whose children
\* are files or empty directories
DirEntry(name, c) ==
    {Node(<<name>>, "dir")} \cup {Node(<<name, x>>, c[x]) : x \in {y \in Names : c[y] # "absent"}}

RootEntry(name) ==
    {{}} \cup {{Node(<<name>>, "file")}}
    \cup {DirEntry(name, c) : c \in [Names -> {"absent", "file", "dir"}]}

SdkTrees ==
    {p \cup a \cup b : p \in {{}, {Node(<<SETTINGS>>, "file")}},
                       a \in RootEntry("A"), b \in RootEntry("B")}

InitSdk ==
    /\ fs \in SdkTrees
    /\ fs0 = fs
    /\ sdk_pc = "start"
    /\ sdk_err = "none"

NormalizeSdk ==
    /\ sdk_pc = "start"
    /\ \E items \in Orders(SubListing(fs)) :
          LET r == expand_sdk(fs, items) IN
          /\ fs' = r.fs
          /\ sdk_err' = r.err
          /\ sdk_pc' = IF r.err = "none" THEN "returned" ELSE "raised"
    /\ UNCHANGED fs0

\* ------------------------------------------------------------------------
\* The generated wrapper (CLANG_WRAPPER)
\* ------------------------------------------------------------------------
\* A C string is a sequence of pieces [id, len]: the first len bytes of the
\* text named id.  Buffers keep their declared sizes.

ARCHS == {"x86", "x86_64", "arm", "arm64"}

Piece(id, n) == [id |-> id, len |-> n]

Lit(id, n) == <<Piece(id, n)>>

RECURSIVE StrLen(_)
StrLen(s) == IF s = <<>> THEN 0 ELSE Head(s).len + StrLen(Tail(s))

\* the first n bytes of s (what snprintf keeps of an argument)
RECURSIVE Trunc(_, _)
Trunc(s, n) ==
    IF s = <<>> \/ n <= 0 THEN <<>>
    ELSE IF Head(s).len <= n THEN <<Head(s)>> \o Trunc(Tail(s), n - Head(s).len)
    ELSE <<Piece(Head(s).id, n)>>

EXE_SIZE == 1024
ENV_COMPILER_SIZE == 1024
DEFAULT_SDK_PATH_SIZE == 1024
SDK_PATH_SIZE == 1024
MIN_OS_VERSION_SIZE == 128

\* the text of each platform's name and of MIN_VERSION's entries
PlatformLen(platform) == IF platform = "iphoneos" THEN 8 ELSE 6

MIN_VERSION(platform) == IF platform = "iphoneos" THEN Piece("4.0", 3) ELSE Piece("10.5", 4)

\* what getenv returns for a variable that is not set
NULL == [id |-> "NULL", len |-> 0]

\* set_compiler_path: the directory of /proc/self/exe as kept in envar after
\* "COMPILER_PATH="; exe_dir is the wrapper's real directory (shorter than exe[]).
set_compiler_path(exe_dir) ==
    LET exe == Trunc(<<exe_dir>>, EXE_SIZE - 1)
        envar == Trunc(Lit("COMPILER_PATH=", 14) \o exe, (ENV_COMPILER_SIZE - 1) - 1)
    IN  Tail(envar)

\* fromenv(out_val at `offset` into a buffer of `size` bytes, getenv result, default):
\* strcpy of the chosen value; overflow when it and its NUL do not fit.
fromenv(size, offset, enval, default_val) ==
    LET val == IF enval # NULL THEN <<enval>> ELSE default_val IN
    [val |-> val, overflow |-> offset + StrLen(val) + 1 > size]

target_triple(arch) == <<Piece(arch, Len(arch)), Piece("-apple-darwin11", 15)>>

version_min_prefix(platform) ==
    <<Piece("-m", 2), Piece(platform, PlatformLen(platform)), Piece("-version-min=", 13)>>

\* default_args with sdk_path and min_os_version filled in (lines 63-71)
default_args(in, sdk_path, min_os_version) ==
    << Lit(in.compiler, Len(in.compiler)),
       Lit("-target", 7), target_triple(in.arch),
       Lit("-isysroot", 9), sdk_path,
       Lit("-arch", 5), Lit(in.arch, Len(in.arch)),
       min_os_version,
       Lit("-mlinker-version=450.3", 22) >>

\* the two copy loops of lines 97-104: args[i] = default_args[i], then
\* args[i + j - 1] = argv[j] for j = 1 .. argc-1
build_args(defaults, argv) ==
    [k \in 1..(Len(defaults) + Len(argv) - 1) |->
        IF k <= Len(defaults) THEN defaults[k] ELSE argv[k - Len(defaults) + 1]]

\* The locals of main just before execvp (lines 87-104).
\* corrupt: which stack buffer an overflowing strcpy left holding other bytes.
wrapper_locals(in, corrupt) ==
    LET compiler_path == set_compiler_path(in.exe_dir)
        default_sdk_path == Trunc(compiler_path \o Lit("/../sdk", 7), DEFAULT_SDK_PATH_SIZE - 1 - 1)
        sdk == fromenv(SDK_PATH_SIZE, 0, in.env_sysroot, default_sdk_path)
        prefix == version_min_prefix(in.platform)
        minv == fromenv(MIN_OS_VERSION_SIZE, StrLen(prefix), in.env_target, <<in.default_min_version>>)
        sdk_path == IF corrupt = "sdk_path" THEN Lit("<clobbered>", 0) ELSE sdk.val
        min_os_version == IF corrupt = "min_os_version" THEN Lit("<clobbered>", 0)
                          ELSE prefix \o minv.val
    IN  [overflow |-> sdk.overflow \/ minv.overflow,
         args |-> build_args(default_args(in, sdk_path, min_os_version), in.argv)]

\* What the environment can do to one run: calloc and readlink results, whether
\* execvp finds the compiler, what an out-of-bounds strcpy leaves behind, and
\* the value main yields when control reaches its closing brace (0 from C99 on,
\* unspecified before).
Outcome(calloc_ok, readlink_ok, exec_ok, ub, cstd, c89_status) ==
    [calloc_ok |-> calloc_ok, readlink_ok |-> readlink_ok, exec_ok |-> exec_ok, ub |-> ub,
     cstd |-> cstd, c89_status |-> c89_status]

UbOutcomes == {"intact", "sdk_path", "min_os_version", "killed"}

WrapperOutcomes ==
    {Outcome(FALSE, TRUE, TRUE, "intact", "c99", 0), Outcome(TRUE, FALSE, TRUE, "intact", "c99", 0)}
    \cup {Outcome(TRUE, TRUE, TRUE, ub, "c99", 0) : ub \in UbOutcomes}
    \cup {Outcome(TRUE, TRUE, FALSE, ub, "c99", 0) : ub \in UbOutcomes}
    \cup {Outcome(TRUE, TRUE, FALSE, ub, "c89", st) : ub \in UbOutcomes, st \in 0..1}

\* main(argc, argv) under outcome h: [pc, how, args, stderr, status]
wrapper_main(in, h) ==
    IF ~h.calloc_ok
    THEN [pc |-> "exit", how |-> "calloc_failed", args |-> <<>>,
          stderr |-> <<"failed to alloc args">>, status |-> 1]
    ELSE IF ~h.readlink_ok
    THEN [pc |-> "exit", how |-> "readlink_failed", args |-> <<>>,
          stderr |-> <<"failed to set compiler path">>, status |-> 1]
    ELSE LET clean == wrapper_locals(in, "none")
             ub == IF clean.overflow THEN h.ub ELSE "intact"
             loc == wrapper_locals(in, IF ub = "intact" THEN "none" ELSE ub)
         IN  IF ub = "killed"
             THEN [pc |-> "killed", how |-> "killed", args |-> <<>>, stderr |-> <<>>,
                   status |-> 0]
             ELSE IF h.exec_ok
             THEN [pc |-> "exec", how |-> "exec", args |-> loc.args, stderr |-> <<>>,
                   status |-> 0]
             ELSE [pc |-> "exit", how |-> "exec_failed", args |-> loc.args,
                   stderr |-> <<"error: compiler invoaction failed">>,
                   status |-> IF h.cstd = "c99" THEN 0 ELSE h.c89_status]

MaxArgs == 2

ArgWords == {"-c", "x.c"}

\* argv: the program name, then up to MaxArgs caller arguments
Argvs ==
    UNION {{<<Lit("argv0", 5)>> \o [i \in 1..n |-> Lit(a[i], Len(a[i]))] : a \in [1..n -> ArgWords]}
             : n \in 0..MaxArgs}

\* lengths of the wrapper's own directory, of <PLATFORM>_SDK_SYSROOT and of
\* <PLATFORM>_DEPLOYMENT_TARGET the runs are given: short ones and those around
\* the buffer sizes
ExeDirs == {Piece("exe_dir", n) : n \in {20, ENV_COMPILER_SIZE - 16, ENV_COMPILER_SIZE - 15}}

Sysroots == {NULL} \cup {Piece("sysroot", n) : n \in {0, 8, SDK_PATH_SIZE - 1, SDK_PATH_SIZE}}

Targets == {NULL} \cup {Piece("target", n) : n \in {3, MIN_OS_VERSION_SIZE - 24, MIN_OS_VERSION_SIZE - 21}}

WrapperInputs ==
    {in \in [compiler : {"clang"}, arch : ARCHS, platform : {"iphoneos", "macosx"},
             default_min_version : {Piece("4.0", 3), Piece("10.5", 4), Piece("12.0", 4)},
             argv : Argvs, exe_dir : ExeDirs, env_sysroot : Sysroots, env_target : Targets] :
        in.default_min_version \in {MIN_VERSION(in.platform), Piece("12.0", 4)}}

NoInput ==
    [compiler |-> "clang", arch |-> "x86", platform |-> "macosx",
     default_min_version |-> Piece("10.5", 4), argv |-> <<Lit("argv0", 5)>>,
     exe_dir |-> Piece("exe_dir", 20), env_sysroot |-> NULL, env_target |-> NULL]

InitWrapper ==
    /\ w_in \in WrapperInputs
    /\ w_pc = "start"
    /\ w_args = <<>>
    /\ w_stderr = <<>>
    /\ w_status = 0
    /\ w_how = "none"

RunWrapper ==
    /\ w_pc = "start"
    /\ \E h \in WrapperOutcomes :
          LET r == wrapper_main(w_in, h) IN
          /\ w_pc' = r.pc
          /\ w_args' = r.args
          /\ w_stderr' = r.stderr
          /\ w_status' = r.status
          /\ w_how' = r.how
    /\ UNCHANGED w_in

\* ------------------------------------------------------------------------
\* create_apple_toolchain
\* ------------------------------------------------------------------------

Front(q) == SubSeq(q, 1, Len(q) - 1)

MaxReturnCode == 1

\* run(): Popen raises (the program cannot be launched), or the process ends
\* with a returncode (negative when a signal ended it)
RunResults ==
    {[launched |-> FALSE, returncode |-> 0]}
    \cup {[launched |-> TRUE, returncode |-> rc] : rc \in (-1)..MaxReturnCode}

\* compile_c raises: run() raised, or `returncode != 0` (line 127)
compile_c_raises(r) == ~r.launched \/ r.returncode # 0

\* make that does not look at the returncode
make_ignores_returncode(r) == ~r.launched

\* make raises: run() raised, or `returncode != 0` (line 138)
make_raises(r) == ~r.launched \/ r.returncode # 0

\* the three inline checks `if returncode != 0: raise` after a run() that returned
returncode_raises(r) == r.returncode # 0

install_dir == <<"/", "install">>
tmp_dir == install_dir \o <<"tmp">>

Entry(name, gen) == [name |-> name, gen |-> gen]

\* os.path.isdir of an absolute path at or under install_dir
IsDirAt(inst, path) ==
    IF path = install_dir THEN inst.kind \in {"dir", "symlink"}
    ELSE /\ inst.kind \in {"dir", "symlink"}
         /\ \E e \in inst.entries : install_dir \o e.name = path

\* a path as the process resolves it from working directory c
Resolve(c, directory) == IF directory[1] = "/" THEN directory ELSE c \o directory

Absent == [kind |-> "absent", gen |-> "new", entries |-> {}]

\* lines 210-213 without the force test: an existing directory is always removed
clear_install_dir_always(inst, force, h) ==
    IF inst.kind = "dir" /\ h.ok
    THEN [raised |-> FALSE, install |-> Absent]
    ELSE [raised |-> inst.kind \in {"dir", "symlink"}, install |-> inst]

\* lines 210-213 with force keeping the directory (no rmtree)
clear_install_dir_keep(inst, force, h) ==
    [raised |-> inst.kind \in {"dir", "symlink"} /\ ~force, install |-> inst]

\* lines 210-213: reject an existing directory without force, rmtree it with force.
\* h: whether rmtree got through, and what it left when it did not.
clear_install_dir(inst, force, h) ==
    IF inst.kind \in {"dir", "symlink"}
    THEN IF ~force
         THEN [raised |-> TRUE, install |-> inst]
         ELSE IF inst.kind = "symlink"
         THEN [raised |-> TRUE, install |-> inst]
         ELSE IF h.ok
         THEN [raised |-> FALSE, install |-> Absent]
         ELSE [raised |-> TRUE, install |-> [inst EXCEPT !.entries = h.rest]]
    ELSE [raised |-> FALSE, install |-> inst]

\* lines 214-217: mkdir(install_dir), then mkdir(tmp_dir) unless it is a directory
make_dirs(inst, io) ==
    IF inst.kind # "absent" \/ ~io.install_ok
    THEN [raised |-> TRUE, install |-> inst]
    ELSE LET made == [kind |-> "dir", gen |-> "new", entries |-> {}] IN
         IF IsDirAt(made, tmp_dir)
         THEN [raised |-> FALSE, install |-> made]
         ELSE IF ~io.tmp_ok
         THEN [raised |-> TRUE, install |-> made]
         ELSE [raised |-> FALSE, install |-> [made EXCEPT !.entries = {Entry(<<"tmp">>, "new")}]]

\* extract(input_sdk, sdk_dir): copytree of a directory (the destination must
\* not exist), extractall of an xz tar, ValueError otherwise; a copy that fails
\* on the way leaves what it had written
extract(inst, input, io_ok) ==
    LET with_sdk == [inst EXCEPT !.entries = @ \cup {Entry(<<"sdk">>, "new")}] IN
    IF input.kind = "dir"
    THEN IF IsDirAt(inst, install_dir \o <<"sdk">>)
         THEN [raised |-> TRUE, install |-> inst, fs |-> {}]
         ELSE IF ~io_ok THEN [raised |-> TRUE, install |-> with_sdk, fs |-> {}]
         ELSE [raised |-> FALSE, install |-> with_sdk, fs |-> input.tree]
    ELSE IF input.kind = "tar_xz"
    THEN IF ~io_ok THEN [raised |-> TRUE, install |-> with_sdk, fs |-> {}]
         ELSE [raised |-> FALSE, install |-> with_sdk, fs |-> input.tree]
    ELSE [raised |-> TRUE, install |-> inst, fs |-> {}]

\* get_sdk_info raises: SDKSettings.plist cannot be opened as a file or lacks a key
get_sdk_info_raises(t, plist) ==
    \/ ~\E n \in t : n.path = <<SETTINGS>> /\ n.kind = "file"
    \/ plist = "malformed"

MIN_VERSION_KEYS == {"iphoneos", "macosx"}

\* lines 229-231: [raised, min_version]
resolve_min_version(given, platform) ==
    IF given # "none" THEN [raised |-> FALSE, min_version |-> given]
    ELSE IF platform \in MIN_VERSION_KEYS
    THEN [raised |-> FALSE, min_version |-> MIN_VERSION(platform).id]
    ELSE [raised |-> TRUE, min_version |-> given]

\* at(directory, create) up to the yield: [raised, cwd, saved, install]
at_enter(c, gone, sv, inst, directory, create, io) ==
    LET target == Resolve(c, directory)
        need_mkdir == create /\ ~IsDirAt(inst, target)
        made == IF need_mkdir /\ io.mkdir_ok
                THEN [inst EXCEPT !.entries = @ \cup {Entry(SubSeq(target, 3, Len(target)), "new")}]
                ELSE inst
    IN  IF gone
        THEN [raised |-> TRUE, cwd |-> c, saved |-> sv, install |-> inst]
        ELSE IF need_mkdir /\ ~io.mkdir_ok
        THEN [raised |-> TRUE, cwd |-> c, saved |-> sv, install |-> inst]
        ELSE IF ~IsDirAt(made, target) \/ ~io.chdir_ok
        THEN [raised |-> TRUE, cwd |-> c, saved |-> sv, install |-> made]
        ELSE [raised |-> FALSE, cwd |-> target, saved |-> Append(sv, c), install |-> made]

\* at() without the chdir back
at_finally_stays(c, curr_dir) == c

\* the finally clause of at(): os.chdir(curr_dir); gives the new working directory
at_finally(c, curr_dir) == curr_dir

\* leaving the innermost open scope, by return or by exception
at_exit(ctx) ==
    LET to == at_finally(ctx.cwd, Last(ctx.saved)) IN
    [cwd |-> to, saved |-> Front(ctx.saved),
     exits |-> ctx.exits \cup {[entered |-> Last(ctx.saved), restored |-> to]}]

\* an exception leaving every open scope
RECURSIVE unwind(_)
unwind(ctx) == IF ctx.saved = <<>> THEN ctx ELSE unwind(at_exit(ctx))

Ctx(c, sv, ex) == [cwd |-> c, saved |-> sv, exits |-> ex]

AtOutcomes == [mkdir_ok : BOOLEAN, chdir_ok : BOOLEAN]

\* run() failed as the caller must see it: no launch, or a nonzero exit status
RunFailed(r) == ~r.launched \/ r.returncode # 0

\* os.environ['INSTALLPREFIX'] after lines 264-270: deleted once run() has returned
libtapi_environ(r) == IF r.launched THEN "unset" ELSE "install_dir"

Steps ==
    << "clear", "mkdirs", "extract", "expand_sdk", "get_sdk_info", "min_version", "wrapper",
       "ldid", "libtapi", "configure", "make", "make_install", "smoke" >>

Finish(step, failed, raised, nxt) ==
    /\ log' = Append(log, [step |-> step, failed |-> failed])
    /\ pc' = IF raised THEN "failed" ELSE nxt

SetCtx(ctx) ==
    /\ cwd' = ctx.cwd
    /\ saved' = ctx.saved
    /\ exits' = ctx.exits

\* lines 210-213
StepClear ==
    /\ pc = "clear"
    /\ \E h \in [ok : BOOLEAN, rest : SUBSET install.entries] :
          LET r == clear_install_dir(install, req.force, h) IN
          /\ install' = r.install
          /\ cwd_gone' = (cwd_gone \/ (r.install.kind = "absent" /\ install.kind = "dir"
                                        /\ IsPrefix(install_dir, cwd)))
          /\ Finish("clear", r.raised, r.raised, "mkdirs")
    /\ UNCHANGED <<req, install0, cwd, cwd0, saved, exits, environ, min_version, last_run>>
    /\ UNCHANGED <<sdkVars, wrapVars>>

\* lines 214-217
StepMkdirs ==
    /\ pc = "mkdirs"
    /\ \E io \in [install_ok : BOOLEAN, tmp_ok : BOOLEAN] :
          LET r == make_dirs(install, io) IN
          /\ install' = r.install
          /\ Finish("mkdirs", r.raised, r.raised, "extract")
    /\ UNCHANGED <<req, install0, cwd, cwd0, cwd_gone, saved, exits, environ, min_version,
                   last_run>>
    /\ UNCHANGED <<sdkVars, wrapVars>>

\* line 225
StepExtract ==
    /\ pc = "extract"
    /\ \E io_ok \in BOOLEAN :
          LET r == extract(install, req.input_sdk, io_ok) IN
          /\ install' = r.install
          /\ fs' = r.fs
          /\ Finish("extract", r.raised, r.raised, "expand_sdk")
    /\ UNCHANGED <<req, install0, cwd, cwd0, cwd_gone, saved, exits, environ, min_version,
                   last_run>>
    /\ UNCHANGED <<fs0, sdk_pc, sdk_err, wrapVars>>

\* line 226
StepExpandSdk ==
    /\ pc = "expand_sdk"
    /\ \E items \in Orders(SubListing(fs)) :
          LET r == expand_sdk(fs, items) IN
          /\ fs' = r.fs
          /\ fs0' = fs
          /\ sdk_err' = r.err
          /\ sdk_pc' = IF r.err = "none" THEN "returned" ELSE "raised"
          /\ Finish("expand_sdk", r.err # "none", r.err # "none", "get_sdk_info")
    /\ UNCHANGED <<req, install, install0, cwd, cwd0, cwd_gone, saved, exits, environ,
                   min_version, last_run>>
    /\ UNCHANGED wrapVars

\* line 227
StepGetSdkInfo ==
    /\ pc = "get_sdk_info"
    /\ LET raised == get_sdk_info_raises(fs, req.plist) IN
       Finish("get_sdk_info", raised, raised, "min_version")
    /\ UNCHANGED <<req, install, install0, cwd, cwd0, cwd_gone, saved, exits, environ,
                   min_version, last_run>>
    /\ UNCHANGED <<sdkVars, wrapVars>>

\* lines 229-231
StepMinVersion ==
    /\ pc = "min_version"
    /\ LET r == resolve_min_version(min_version, req.plist) IN
       /\ min_version' = r.min_version
       /\ Finish("min_version", r.raised, r.raised, "wrapper")
    /\ UNCHANGED <<req, install, install0, cwd, cwd0, cwd_gone, saved, exits, environ, last_run>>
    /\ UNCHANGED <<sdkVars, wrapVars>>

\* lines 233-252: mkdir(bin_dir), compile_c, write and chmod the wrapper
StepWrapper ==
    /\ pc = "wrapper"
    /\ \E io \in [mkdir_ok : BOOLEAN, write_ok : BOOLEAN], r \in RunResults :
          LET bin_exists == IsDirAt(install, install_dir \o <<"bin">>)
              no_bin == bin_exists \/ ~io.mkdir_ok
              with_bin == [install EXCEPT !.entries = @ \cup {Entry(<<"bin">>, "new")}]
              with_wrapper == [with_bin EXCEPT !.entries = @ \cup {Entry(<<"bin", "wrapper">>, "new")}]
              raised == no_bin \/ compile_c_raises(r) \/ ~io.write_ok
              failed == no_bin \/ RunFailed(r) \/ ~io.write_ok
          IN
          /\ install' = IF no_bin THEN install
                        ELSE IF compile_c_raises(r) \/ ~io.write_ok THEN with_bin
                        ELSE with_wrapper
          /\ last_run' = IF no_bin THEN last_run ELSE r
          /\ Finish("wrapper", failed, raised, "ldid")
    /\ UNCHANGED <<req, install0, cwd, cwd0, cwd_gone, saved, exits, environ, min_version>>
    /\ UNCHANGED <<sdkVars, wrapVars>>

\* lines 255-259: enter at(tmp_dir), then at('ldid', create=True) around make install
StepLdid ==
    /\ pc = "ldid"
    /\ \E io1 \in AtOutcomes, io2 \in AtOutcomes, r \in RunResults :
          LET e1 == at_enter(cwd, cwd_gone, saved, install, tmp_dir, FALSE, io1)
              e2 == at_enter(e1.cwd, cwd_gone, e1.saved, e1.install, <<"ldid">>, TRUE, io2)
              inner == Ctx(e2.cwd, e2.saved, exits)
              entered == ~e1.raised /\ ~e2.raised
              raised == ~entered \/ make_raises(r)
              failed == ~entered \/ RunFailed(r)
          IN
          /\ SetCtx(IF e1.raised THEN Ctx(cwd, saved, exits)
                    ELSE IF e2.raised THEN unwind(Ctx(e1.cwd, e1.saved, exits))
                    ELSE IF make_raises(r) THEN unwind(inner)
                    ELSE at_exit(inner))
          /\ install' = IF e1.raised THEN install ELSE e2.install
          /\ last_run' = IF entered THEN r ELSE last_run
          /\ Finish("ldid", failed, raised, "libtapi")
    /\ UNCHANGED <<req, install0, cwd0, cwd_gone, environ, min_version>>
    /\ UNCHANGED <<sdkVars, wrapVars>>

\* lines 262-272: at('apple-libtapi', create=True) around build.sh with INSTALLPREFIX set
StepLibtapi ==
    /\ pc = "libtapi"
    /\ \E io \in AtOutcomes, r \in RunResults :
          LET e == at_enter(cwd, cwd_gone, saved, install, <<"apple-libtapi">>, TRUE, io)
              inner == Ctx(e.cwd, e.saved, exits)
              raised == e.raised \/ ~r.launched \/ returncode_raises(r)
              failed == e.raised \/ RunFailed(r)
          IN
          /\ SetCtx(IF raised THEN unwind(inner) ELSE at_exit(inner))
          /\ install' = e.install
          /\ environ' = IF e.raised THEN environ ELSE libtapi_environ(r)
          /\ last_run' = IF e.raised THEN last_run ELSE r
          /\ Finish("libtapi", failed, raised, "configure")
    /\ UNCHANGED <<req, install0, cwd0, cwd_gone, min_version>>
    /\ UNCHANGED <<sdkVars, wrapVars>>

\* lines 275-286: enter at('cctools', create=True) and run configure
StepConfigure ==
    /\ pc = "configure"
    /\ \E io \in AtOutcomes, r \in RunResults :
          LET e == at_enter(cwd, cwd_gone, saved, install, <<"cctools">>, TRUE, io)
              inner == Ctx(e.cwd, e.saved, exits)
              raised == e.raised \/ ~r.launched \/ returncode_raises(r)
              failed == e.raised \/ RunFailed(r)
          IN
          /\ SetCtx(IF raised THEN unwind(inner) ELSE inner)
          /\ install' = e.install
          /\ last_run' = IF e.raised THEN last_run ELSE r
          /\ Finish("configure", failed, raised, "make")
    /\ UNCHANGED <<req, install0, cwd0, cwd_gone, environ, min_version>>
    /\ UNCHANGED <<sdkVars, wrapVars>>

\* line 287
StepMake ==
    /\ pc = "make"
    /\ \E r \in RunResults :
          /\ SetCtx(IF make_raises(r) THEN unwind(Ctx(cwd, saved, exits))
                    ELSE Ctx(cwd, saved, exits))
          /\ last_run' = r
          /\ Finish("make", RunFailed(r), make_raises(r), "make_install")
    /\ UNCHANGED <<req, install, install0, cwd0, cwd_gone, environ, min_version>>
    /\ UNCHANGED <<sdkVars, wrapVars>>

\* line 288, and the end of the at('cctools') block
StepMakeInstall ==
    /\ pc = "make_install"
    /\ \E r \in RunResults :
          /\ SetCtx(IF make_raises(r) THEN unwind(Ctx(cwd, saved, exits))
                    ELSE at_exit(Ctx(cwd, saved, exits)))
          /\ last_run' = r
          /\ Finish("make_install", RunFailed(r), make_raises(r), "smoke")
    /\ UNCHANGED <<req, install, install0, cwd0, cwd_gone, environ, min_version>>
    /\ UNCHANGED <<sdkVars, wrapVars>>

\* lines 291-301: run the installed wrapper on a one-line program, leave
\* at(tmp_dir), print 'done'
StepSmoke ==
    /\ pc = "smoke"
    /\ \E r \in RunResults :
          LET raised == ~r.launched \/ returncode_raises(r) IN
          /\ SetCtx(IF raised THEN unwind(Ctx(cwd, saved, exits))
                    ELSE at_exit(Ctx(cwd, saved, exits)))
          /\ last_run' = r
          /\ Finish("smoke", RunFailed(r), raised, "done")
    /\ UNCHANGED <<req, install, install0, cwd0, cwd_gone, environ, min_version>>
    /\ UNCHANGED <<sdkVars, wrapVars>>

\* ---- what create_apple_toolchain is called with ----

SampleTrees ==
    { {Node(<<SETTINGS>>, "file"), Node(<<"A">>, "dir")},
      DirEntry("A", [x \in Names |-> IF x = "A" THEN "absent" ELSE "file"]),
      DirEntry("A", [x \in Names |-> IF x = SETTINGS THEN "dir" ELSE "absent"]),
      DirEntry("A", [x \in Names |-> "file"]),
      DirEntry("A", [x \in Names |-> IF x = SETTINGS THEN "file" ELSE "absent"])
        \cup DirEntry("B", [x \in Names |-> IF x = SETTINGS THEN "file" ELSE "absent"]),
      {Node(<<"A">>, "file")} }

InputSdks ==
    {[kind |-> "dir", tree |-> t] : t \in SampleTrees}
    \cup {[kind |-> "tar_xz", tree |-> {Node(<<SETTINGS>>, "file"), Node(<<"A">>, "dir")}],
          [kind |-> "tar_other", tree |-> {}],
          [kind |-> "file", tree |-> {}]}

Requests ==
    [force : BOOLEAN, min_version : {"none", "9.0"}, input_sdk : InputSdks,
     plist : {"iphoneos", "macosx", "appletvos", "malformed"}]

OldEntries == SUBSET {Entry(<<"tmp">>, "old"), Entry(<<"sdk">>, "old")}

Installs ==
    {Absent, [kind |-> "file", gen |-> "old", entries |-> {}]}
    \cup {[kind |-> k, gen |-> "old", entries |-> e] : k \in {"dir", "symlink"}, e \in OldEntries}

NoRun == [launched |-> FALSE, returncode |-> 0]

InitOrch ==
    /\ req \in Requests
    /\ pc = "clear"
    /\ install \in Installs
    /\ install0 = install
    /\ cwd \in {<<"/", "home">>} \cup (IF install.kind = "dir" THEN {install_dir} ELSE {})
    /\ cwd0 = cwd
    /\ cwd_gone = FALSE
    /\ saved = <<>>
    /\ exits = {}
    /\ environ \in {"unset", "user"}
    /\ min_version = req.min_version
    /\ last_run = NoRun
    /\ log = <<>>

IdleOrch ==
    /\ req = [force |-> FALSE, min_version |-> "none",
              input_sdk |-> [kind |-> "file", tree |-> {}], plist |-> "malformed"]
    /\ pc = "idle"
    /\ install = Absent
    /\ install0 = Absent
    /\ cwd = <<"/", "home">>
    /\ cwd0 = <<"/", "home">>
    /\ cwd_gone = FALSE
    /\ saved = <<>>
    /\ exits = {}
    /\ environ = "unset"
    /\ min_version = "none"
    /\ last_run = NoRun
    /\ log = <<>>

IdleSdk ==
    /\ fs = {}
    /\ fs0 = {}
    /\ sdk_pc = "idle"
    /\ sdk_err = "none"

IdleWrapper ==
    /\ w_in = NoInput
    /\ w_pc = "idle"
    /\ w_args = <<>>
    /\ w_stderr = <<>>
    /\ w_status = 0
    /\ w_how = "none"

Init == InitOrch /\ IdleSdk /\ IdleWrapper

Next ==
    \/ StepClear
    \/ StepMkdirs
    \/ StepExtract
    \/ StepExpandSdk
    \/ StepGetSdkInfo
    \/ StepMinVersion
    \/ StepWrapper
    \/ StepLdid
    \/ StepLibtapi
    \/ StepConfigure
    \/ StepMake
    \/ StepMakeInstall
    \/ StepSmoke

Spec == Init /\ [][Next]_vars

\* ---- expand_sdk and the wrapper on their own ----

InitSdkOnly == InitSdk /\ IdleWrapper /\ IdleOrch

NextSdk == NormalizeSdk /\ UNCHANGED <<wrapVars, orchVars>>

SpecSdk == InitSdkOnly /\ [][NextSdk]_vars

InitWrapperOnly == InitWrapper /\ IdleSdk /\ IdleOrch

NextWrapper == RunWrapper /\ UNCHANGED <<sdkVars, orchVars>>

SpecWrapper == InitWrapperOnly /\ [][NextWrapper]_vars

\* ------------------------------------------------------------------------
\* Properties of create_apple_toolchain
\* ------------------------------------------------------------------------

\* C1: the steps begin in the fixed order of Steps, each at most once; a step
\* begins only when every earlier one succeeded; a step that fails (an exception,
\* or a nonzero exit status of the process it launched) ends the run in error, so
\* that nothing follows it; and "done" is reached only after every step, the
\* smoke test having returned exit status zero.
C1_FixedOrderFailFast ==
    /\ Len(log) <= Len(Steps)
    /\ \A i \in 1..Len(log) : log[i].step = Steps[i]
    /\ \A i \in 1..(Len(log) - 1) : ~log[i].failed
    /\ (log # <<>> /\ log[Len(log)].failed) => pc = "failed"
    /\ pc = "failed" => (log # <<>> /\ log[Len(log)].failed)
    /\ pc \notin {"done", "failed"} => (Len(log) < Len(Steps) /\ pc = Steps[Len(log) + 1])
    /\ pc = "done" =>
          /\ Len(log) = Len(Steps)
          /\ ~log[Len(log)].failed
          /\ last_run.launched /\ last_run.returncode = 0

C1_Witness ==
    /\ pc = "failed"
    /\ Len(log) = Len(Steps) - 2
    /\ log[Len(log)].step = "make"
    /\ last_run.launched /\ last_run.returncode = 1

\* C2: when the apple-libtapi stage fails, cctools configure is never attempted
\* and INSTALLPREFIX no longer holds the value set for the stage, whether
\* build.sh exited nonzero or could not be launched.
C2_LibtapiFailureLeavesNoEnv ==
    \A i \in 1..Len(log) :
        (log[i].step = "libtapi" /\ log[i].failed) =>
            (Len(log) = i /\ pc = "failed" /\ environ # "install_dir")

\* C4: every at() scope that has ended left the working directory it recorded
\* on entry; the open scopes are exactly nested (the outer one will restore the
\* directory of the call, the inner one tmp_dir); and once the run has returned
\* or raised, the working directory is the one it began in.
C4_ScopesRestoreCwd ==
    /\ \A e \in exits : e.restored = e.entered
    /\ saved \in {<<>>, <<cwd0>>, <<cwd0, tmp_dir>>}
    /\ Len(saved) = 1 => cwd = tmp_dir
    /\ Len(saved) = 2 => (Len(cwd) = Len(tmp_dir) + 1 /\ IsPrefix(tmp_dir, cwd))
    /\ Len(saved) = 0 => cwd = cwd0
    /\ pc \in {"done", "failed"} => (saved = <<>> /\ cwd = cwd0)

C4_Witness ==
    /\ pc = "failed"
    /\ log[Len(log)].step = "make"
    /\ exits = {[entered |-> tmp_dir, restored |-> tmp_dir],
                [entered |-> cwd0, restored |-> cwd0]}
    /\ cwd = cwd0

\* C5: without force, a run against an existing installation directory ends in
\* error at the first step: no directory is created, nothing is extracted or
\* built, and the directory and its contents stay as they were.
C5_NoForceLeavesInstallDir ==
    (pc # "idle" /\ ~req.force /\ install0.kind \in {"dir", "symlink"}) =>
        /\ install = install0
        /\ fs = {}
        /\ \/ (pc = "clear" /\ log = <<>>)
           \/ (pc = "failed" /\ log = <<[step |-> "clear", failed |-> TRUE]>>)

C5_Witness ==
    /\ ~req.force
    /\ install0.kind = "dir" /\ install0.entries # {}
    /\ pc = "failed"

\* C10: with force, once the first step has succeeded on an existing
\* installation directory nothing of that directory is left, and when
\* extraction is about to begin the installation root is a new directory
\* holding tmp/ alone.
C10_ForceStartsFromNothing ==
    (pc # "idle" /\ req.force /\ install0.kind \in {"dir", "symlink"}) =>
        /\ (log # <<>> /\ ~log[1].failed) =>
              /\ install.kind \in {"absent", "dir"}
              /\ install.gen = "new"
              /\ \A e \in install.entries : e.gen = "new"
        /\ pc = "extract" =>
              install = [kind |-> "dir", gen |-> "new", entries |-> {Entry(<<"tmp">>, "new")}]

C10_Witness ==
    /\ req.force
    /\ install0.kind = "dir" /\ install0.entries # {}
    /\ pc = "extract"

\* ------------------------------------------------------------------------
\* Properties of the wrapper
\* ------------------------------------------------------------------------

\* C3: when execvp returns, the wrapper has printed the diagnostic and exits
\* with a nonzero status.
C3_ExecFailureExitsNonzero ==
    (w_pc = "exit" /\ w_how = "exec_failed") =>
        /\ \E i \in 1..Len(w_stderr) : w_stderr[i] = "error: compiler invoaction failed"
        /\ w_status # 0

\* the vector the wrapper is to pass with the given -isysroot and version values
ExpectedArgs(in, sysroot, version) ==
    << Lit(in.compiler, Len(in.compiler)),
       Lit("-target", 7), <<Piece(in.arch, Len(in.arch)), Piece("-apple-darwin11", 15)>>,
       Lit("-isysroot", 9), sysroot,
       Lit("-arch", 5), Lit(in.arch, Len(in.arch)),
       <<Piece("-m", 2), Piece(in.platform, PlatformLen(in.platform)),
         Piece("-version-min=", 13)>> \o version,
       Lit("-mlinker-version=450.3", 22) >> \o Tail(in.argv)

\* C6: with neither override variable set, the compiler is started with the
\* nine fixed arguments -- -isysroot being <own-directory>/../sdk and the
\* version the compile-time default -- followed by argv[1..] as given.
C6_DefaultVector ==
    (w_pc = "exec" /\ w_in.env_sysroot = NULL /\ w_in.env_target = NULL) =>
        w_args = ExpectedArgs(w_in, <<w_in.exe_dir, Piece("/../sdk", 7)>>,
                              <<w_in.default_min_version>>)

\* the vector of the same run with both override variables unset
BaseArgs(in) ==
    wrapper_main([in EXCEPT !.env_sysroot = NULL, !.env_target = NULL],
                 Outcome(TRUE, TRUE, TRUE, "intact", "c99", 0)).args

\* C7: <PLATFORM>_SDK_SYSROOT, when set, is exactly the value after -isysroot;
\* <PLATFORM>_DEPLOYMENT_TARGET, when set, is exactly what follows
\* "-m<platform>-version-min="; each falls back to its default on its own, and
\* every other element is that of the run without overrides.
C7_OverridesOnlyTheirValue ==
    w_pc = "exec" =>
        w_args = [BaseArgs(w_in) EXCEPT
                    ![5] = IF w_in.env_sysroot # NULL THEN <<w_in.env_sysroot>> ELSE @,
                    ![8] = IF w_in.env_target # NULL
                           THEN version_min_prefix(w_in.platform) \o <<w_in.env_target>>
                           ELSE @]

\* ------------------------------------------------------------------------
\* Properties of expand_sdk
\* ------------------------------------------------------------------------

NoTopSettings(t) == SETTINGS \notin ListDir(t, <<>>)

\* C8: on a root without a top-level settings file, two or more candidate
\* subdirectories make expand_sdk raise the "multiple candidates" error, and no
\* candidate the "not found" error, in both cases with the tree exactly as it was.
C8_NoMutationOnError ==
    (sdk_pc # "start" /\ NoTopSettings(fs0)) =>
        /\ Cardinality(sdk_items(fs0)) > 1 =>
              (sdk_pc = "raised" /\ sdk_err = "multiple" /\ fs = fs0)
        /\ Cardinality(sdk_items(fs0)) = 0 =>
              (sdk_pc = "raised" /\ sdk_err = "not_found" /\ fs = fs0)

C8_Witness ==
    /\ sdk_pc = "raised" /\ sdk_err = "multiple"
    /\ NoTopSettings(fs0) /\ Cardinality(sdk_items(fs0)) = 2
    /\ \E n \in fs0 : Len(n.path) = 2 /\ Last(n.path) # SETTINGS

\* C9: on a root without a top-level settings file and exactly one candidate
\* subdirectory, expand_sdk returns, the settings file is then at the top level,
\* every entry of the candidate is a direct child of the root, and the candidate
\* directory is gone -- whatever the names of its entries.
C9_SingleCandidateFlattened ==
    (sdk_pc # "start" /\ NoTopSettings(fs0) /\ Cardinality(sdk_items(fs0)) = 1) =>
        LET sub == CHOOSE x \in sdk_items(fs0) : TRUE IN
        /\ sdk_pc = "returned"
        /\ SETTINGS \in ListDir(fs, <<>>)
        /\ \A n0 \in fs0 : (Len(n0.path) = 2 /\ n0.path[1] = sub) =>
              \E n \in fs : n.orig = n0.path /\ n.path = <<n0.path[2]>>
        /\ ~\E n \in fs : n.orig = <<sub>>

=============================================================================
